---- MODULE Spec2Model ----
(***************************************************************************)
(* A model of xtraceback's XTraceback formatter (xtraceback/xtraceback.py) *)
(* and of its XTracebackOptions.                                           *)
(*                                                                         *)
(* Python values are modelled as follows: None is the empty set and any    *)
(* other value v is the singleton {v} where a field may be None; str is a  *)
(* TLA+ string (Len, \o and SubSeq act on it character by character); a    *)
(* dict is a function; a list is a sequence.                               *)
(***************************************************************************)
EXTENDS Integers, Sequences, FiniteSets, TLC

VARIABLES
    pc,             \* "new" before XTraceback.__init__, then "ready" or "failed"
    args,           \* the callers' arguments: etype, value, tb, options, variable
    env,            \* the process: fcntl/pygments imports, terminal columns
    options,        \* self.options (an XTracebackOptions), as a dict of attributes
    error,          \* the exception raised by the constructor, if any
    tb_frames,      \* self.tb_frames
    number_padding, \* self.number_padding
    examined,       \* the indices i for which an XTracebackFrame was built
    lexer,          \* self._lexer
    formatter,      \* self._formatter
    stats,          \* how often the lexer/formatter were constructed or tried
    written,        \* what options.stream.write received, in order
    ret,            \* the outcome of the last call on the facade, and what it found
    ncalls          \* number of calls made on the facade

vars == <<pc, args, env, options, error, tb_frames, number_padding, examined,
          lexer, formatter, stats, written, ret, ncalls>>

----------------------------------------------------------------------------
(* Bounds of the model *)

MaxFrames == 3
MaxOffset == 3
MaxLimit == 3
MaxCalls == 2
MaxKeyLen == 3
MaxTextLen == 14
MaxFlagValue == 2

----------------------------------------------------------------------------
(* Python values *)

None == {}
Some(v) == {v}
Get(m) == CHOOSE v \in m : TRUE

Min(a, b) == IF a < b THEN a ELSE b
Max(a, b) == IF a > b THEN a ELSE b

\* s[:n]
SliceTo(s, n) ==
    IF n >= 0 THEN SubSeq(s, 1, Min(n, Len(s)))
    ELSE SubSeq(s, 1, Max(0, Len(s) + n))

\* s[n:] for n >= 0
SliceFrom(s, n) == SubSeq(s, Min(n, Len(s)) + 1, Len(s))

Digit(d) == SubSeq("0123456789", d + 1, d + 1)

\* str(n) for n >= 0
RECURSIVE Str(_)
Str(n) == IF n < 10 THEN Digit(n) ELSE Str(n \div 10) \o Digit(n % 10)

\* "".join(lines)
RECURSIVE Join(_)
Join(lines) == IF lines = <<>> THEN "" ELSE Head(lines) \o Join(Tail(lines))

\* str.isspace for one character
IsSpace(c) == c \in {" ", "\t", "\n", "\r"}

StartsWith(s, p) == Len(s) >= Len(p) /\ SubSeq(s, 1, Len(p)) = p

\* s.lstrip() / s.rstrip() / s.strip()
RECURSIVE LStrip(_)
LStrip(s) ==
    IF Len(s) > 0 /\ IsSpace(SubSeq(s, 1, 1)) THEN LStrip(SliceFrom(s, 1)) ELSE s

RECURSIVE RStrip(_)
RStrip(s) ==
    IF Len(s) > 0 /\ IsSpace(SubSeq(s, Len(s), Len(s)))
    THEN RStrip(SubSeq(s, 1, Len(s) - 1)) ELSE s

Strip(s) == LStrip(RStrip(s))

\* whether character c occurs in the string chars
CharIn(c, chars) == \E i \in 1..Len(chars) : SubSeq(chars, i, i) = c

\* s.lstrip(chars) / s.rstrip(chars): strip any character of chars
RECURSIVE LStripChars(_, _)
LStripChars(s, chars) ==
    IF Len(s) > 0 /\ CharIn(SubSeq(s, 1, 1), chars)
    THEN LStripChars(SliceFrom(s, 1), chars) ELSE s

RECURSIVE RStripChars(_, _)
RStripChars(s, chars) ==
    IF Len(s) > 0 /\ CharIn(SubSeq(s, Len(s), Len(s)), chars)
    THEN RStripChars(SubSeq(s, 1, Len(s) - 1), chars) ELSE s

\* a string of n copies of the character c
RECURSIVE Repeat(_, _)
Repeat(c, n) == IF n <= 0 THEN "" ELSE c \o Repeat(c, n - 1)

----------------------------------------------------------------------------
(* XTracebackOptions *)

\* XTracebackOptions._options: the default options
DefaultOptions ==
    [stream |-> None, color |-> None, print_width |-> None, offset |-> Some(0),
     limit |-> None, context |-> Some(5), globals_module_include |-> None]

\* XTracebackOptions._flags: the default flags
DefaultFlags ==
    [show_args |-> Some(TRUE), show_locals |-> Some(TRUE),
     show_globals |-> Some(FALSE), qualify_methods |-> Some(TRUE),
     shorten_filenames |-> Some(TRUE)]

OptionKeys == DOMAIN DefaultOptions
FlagKeys == DOMAIN DefaultFlags

\* options.pop(key, None): the value popped
Pop(bag, key) == IF key \in DOMAIN bag THEN bag[key] ELSE None

\* the attribute set for an option key (lines 61-65)
OptionValue(bag, key) ==
    IF Pop(bag, key) = None THEN DefaultOptions[key] ELSE Pop(bag, key)

\* the attribute set for a flag key (lines 67-73): bool(value) unless None
FlagValue(bag, key) ==
    IF Pop(bag, key) = None THEN DefaultFlags[key]
    ELSE Some(Get(Pop(bag, key)) # 0)

\* a slip in Remaining: only one of the unknown keys is reported
RemainingFirstOnly(bag) ==
    LET rest == DOMAIN bag \ (OptionKeys \cup FlagKeys)
    IN [k \in (IF rest = {} THEN {} ELSE {CHOOSE k \in rest : TRUE}) |-> bag[k]]

\* what is left of the options dict once every known key was popped
Remaining(bag) ==
    [k \in DOMAIN bag \ (OptionKeys \cup FlagKeys) |-> bag[k]]

\* XTracebackOptions.__init__: the attributes, and the TypeError if any
XTracebackOptions(bag) ==
    [attrs |-> [k \in OptionKeys \cup FlagKeys |->
                    IF k \in OptionKeys THEN OptionValue(bag, k)
                    ELSE FlagValue(bag, k)],
     raised |-> DOMAIN Remaining(bag) # {},
     exc |-> [type |-> "TypeError", text |-> "Unsupported options: ",
              dict |-> Remaining(bag)]]

NoError == [type |-> "", text |-> "", dict |-> <<>>]
NoOptions == [k \in OptionKeys \cup FlagKeys |-> None]

----------------------------------------------------------------------------
(* XTraceback: construction *)

DEFAULT_WIDTH == 80

\* hasattr(stream, "isatty") and stream.isatty() for the stream objects of
\* the model: a terminal, a regular file, a write-only buffer without isatty
HasIsatty(stream) == stream \in {"tty", "file"}
Isatty(stream) == stream = "tty"

\* XTraceback.tty_stream
tty_stream(opts) ==
    /\ opts.stream # None
    /\ HasIsatty(Get(opts.stream))
    /\ Isatty(Get(opts.stream))

\* XTraceback.color
color(opts) ==
    IF opts.color = None THEN tty_stream(opts) ELSE Get(opts.color)

\* XTraceback.print_width: the else branch also runs when a width is set
print_width(opts, e) ==
    IF opts.print_width = None /\ e.fcntl /\ tty_stream(opts)
    THEN e.columns
    ELSE DEFAULT_WIDTH

\* a slip in LoopBody: the padding also counts an excluded frame
LoopBodyPadsExcluded(acc, raw, i, opts) ==
    IF i >= Get(opts.offset)
    THEN [frames |-> IF raw.exclude THEN acc.frames
                     ELSE Append(acc.frames,
                                 [index |-> i, lineno |-> raw.lineno]),
          padding |-> Max(Len(Str(raw.lineno)), acc.padding),
          examined |-> Append(acc.examined, i)]
    ELSE acc

\* one turn of the loop of XTraceback.__init__ (lines 128-136) on the raw
\* frame at index i; acc holds tb_frames, number_padding and the indices of
\* the frames an XTracebackFrame was built for
LoopBody(acc, raw, i, opts) ==
    IF i >= Get(opts.offset)
    THEN [frames |-> IF raw.exclude THEN acc.frames
                     ELSE Append(acc.frames,
                                 [index |-> i, lineno |-> raw.lineno]),
          padding |-> IF raw.exclude THEN acc.padding
                      ELSE Max(Len(Str(raw.lineno)), acc.padding),
          examined |-> Append(acc.examined, i)]
    ELSE acc

\* a slip in LoopCond: the limit counts from the offset
LoopCondFromOffset(tb, i, opts) ==
    /\ i < Len(tb)
    /\ (opts.limit = None \/ i < Get(opts.offset) + Get(opts.limit))

\* the loop condition (lines 126-127); tb is None past the last raw frame
LoopCond(tb, i, opts) ==
    /\ i < Len(tb)
    /\ (opts.limit = None \/ i < Get(opts.limit))

RECURSIVE Loop(_, _, _, _)
Loop(tb, i, opts, acc) ==
    IF LoopCond(tb, i, opts)
    THEN Loop(tb, i + 1, opts, LoopBody(acc, tb[i + 1], i, opts))
    ELSE acc

\* XTraceback.__init__
Construct ==
    /\ pc = "new"
    /\ LET o == XTracebackOptions(args.bag)
           w == Loop(args.tb, 0, o.attrs,
                     [frames |-> <<>>, padding |-> 0, examined |-> <<>>])
       IN IF o.raised
          THEN /\ pc' = "failed"
               /\ error' = o.exc
               /\ UNCHANGED <<options, tb_frames, number_padding, examined>>
          ELSE /\ pc' = "ready"
               /\ options' = o.attrs
               /\ tb_frames' = w.frames
               /\ number_padding' = w.padding
               /\ examined' = w.examined
               /\ UNCHANGED error
    /\ UNCHANGED <<args, env, lexer, formatter, stats, written, ret, ncalls>>

----------------------------------------------------------------------------
(* XTraceback: the traceback and exception lines *)

\* the file system seen by os.path: the working directory and the directory
\* of the standard library
Cwd == "/w"
StdlibPath == "/lib"

\* os.path.realpath on a file system without symbolic links
Realpath(f) == IF StartsWith(f, "/") THEN f ELSE Cwd \o "/" \o f

\* os.path.relpath of an absolute path, from Cwd (one level below the root)
Relpath(f) ==
    IF StartsWith(f, Cwd \o "/") THEN SliceFrom(f, Len(Cwd) + 1)
    ELSE ".." \o f

\* s.replace(old, new), old not empty
RECURSIVE Replace(_, _, _)
Replace(s, old, new) ==
    IF Len(s) = 0 THEN ""
    ELSE IF StartsWith(s, old)
         THEN new \o Replace(SliceFrom(s, Len(old)), old, new)
         ELSE SubSeq(s, 1, 1) \o Replace(SliceFrom(s, 1), old, new)

\* XTraceback._format_filename
format_filename(filename, opts, e) ==
    IF Get(opts.shorten_filenames)
    THEN IF StartsWith(Realpath(filename), StdlibPath)
         THEN Replace(Realpath(filename), StdlibPath, "<stdlib>")
         ELSE IF e.relpath
                 /\ Len(Relpath(Realpath(filename))) < Len(Realpath(filename))
              THEN Relpath(Realpath(filename))
              ELSE Realpath(filename)
    ELSE filename

\* str(frame) of an XTracebackFrame: its location line
FrameStr(frame) ==
    "  File \"f" \o Str(frame.index) \o ".py\", line " \o Str(frame.lineno)

\* XTraceback._format_tb
format_tb_lines(frames) == [i \in 1..Len(frames) |-> FrameStr(frames[i]) \o "\n"]

\* value_str of lines 261-269: str(value), else the escaped unicode(value),
\* else the placeholder
ValueStr(value) ==
    IF value = None THEN "None"
    ELSE IF Get(value).str # None THEN Get(Get(value).str)
    ELSE IF Get(value).unicode # None THEN Get(Get(value).unicode)
    ELSE "<unprintable " \o Get(value).type \o " object>"

\* the caret line's padding (lines 285-289)
CaretSpace(badline, offset) ==
    LET cut == LStrip(SliceTo(RStripChars(badline, "\n"), offset))
    IN Join([i \in 1..Len(cut) |->
                IF IsSpace(SubSeq(cut, i, i)) THEN SubSeq(cut, i, i) ELSE " "])

\* whether lines 271-292 take the SyntaxError branch with unpacked args
SyntaxCase(value) ==
    value # None /\ Get(value).syntax /\ Get(value).args # None

\* the lines appended for a SyntaxError (lines 278-291)
SyntaxLines(a, opts, e) ==
    LET fn == IF a.filename # None /\ Get(a.filename) # ""
                 /\ format_filename(Get(a.filename), opts, e) # ""
              THEN format_filename(Get(a.filename), opts, e)
              ELSE "<string>"
    IN <<"  File \"" \o fn \o "\", line " \o Str(a.lineno) \o "\n">>
       \o (IF a.badline # None
           THEN <<"    " \o Strip(Get(a.badline)) \o "\n">>
                \o (IF a.offset # None
                    THEN <<"   " \o CaretSpace(Get(a.badline), Get(a.offset))
                           \o "^\n">>
                    ELSE <<>>)
           ELSE <<>>)

\* value_str once the SyntaxError branch ran (line 292)
FinalValueStr(value) ==
    IF SyntaxCase(value) /\ Get(Get(value).args).badline # None
    THEN Get(Get(value).args).msg
    ELSE ValueStr(value)

\* a slip in ExcLine: the message is appended even when it is empty
ExcLineAlwaysColon(etype, value) ==
    (IF etype.isType /\ etype.name # "" THEN etype.name ELSE etype.str)
    \o (IF value # None THEN ": " \o FinalValueStr(value) ELSE "")

\* exc_line of lines 294-297
ExcLine(etype, value) ==
    (IF etype.isType /\ etype.name # "" THEN etype.name ELSE etype.str)
    \o (IF value # None /\ FinalValueStr(value) # ""
        THEN ": " \o FinalValueStr(value) ELSE "")

\* XTraceback._format_exception_only
format_exception_only_lines(etype, value, opts, e) ==
    (IF SyntaxCase(value) THEN SyntaxLines(Get(Get(value).args), opts, e)
     ELSE <<>>)
    \o <<ExcLine(etype, value) \o "\n">>

Header == "Traceback (most recent call last):\n"

\* a slip in format_exception_lines: the header is put even without frames
format_exception_lines_header(frames, etype, value, opts, e) ==
    <<Header>> \o format_tb_lines(frames)
    \o format_exception_only_lines(etype, value, opts, e)

\* XTraceback._format_exception
format_exception_lines(frames, etype, value, opts, e) ==
    (IF format_tb_lines(frames) # <<>>
     THEN <<Header>> \o format_tb_lines(frames)
     ELSE format_tb_lines(frames))
    \o format_exception_only_lines(etype, value, opts, e)

----------------------------------------------------------------------------
(* XTraceback: highlighting *)

\* what pygments.highlight returns for a string
Highlighted(string) == "<hl>" \o string

\* the outcomes of one call of _highlight that the code does not decide:
\* whether TerminalFormatter() can be constructed, and how pygments.highlight
\* ends
Outcomes == [fmt : BOOLEAN, hl : {"ok", "KeyboardInterrupt", "Exception"}]

\* a slip in HighlightCall: every exception is swallowed but KeyboardInterrupt
HighlightCallReraisesInterrupt(string, h, hl) ==
    LET h1 == [h EXCEPT !.stats.highlight_calls = @ + 1]
    IN CASE hl = "ok" ->
              [h |-> h1, status |-> "return", val |-> Highlighted(string),
               exc |-> "", event |-> "highlighted"]
         [] hl = "KeyboardInterrupt" ->
              [h |-> h1, status |-> "raise", val |-> "",
               exc |-> "KeyboardInterrupt", event |-> "KeyboardInterrupt"]
         [] OTHER ->
              [h |-> h1, status |-> "return", val |-> string,
               exc |-> "", event |-> "Exception"]

\* lines 231-236: the call of pygments.highlight inside try/except
HighlightCall(string, h, hl) ==
    LET h1 == [h EXCEPT !.stats.highlight_calls = @ + 1]
    IN CASE hl = "ok" ->
              [h |-> h1, status |-> "return", val |-> Highlighted(string),
               exc |-> "", event |-> "highlighted"]
         [] hl = "KeyboardInterrupt" ->
              [h |-> h1, status |-> "return", val |-> string,
               exc |-> "", event |-> "KeyboardInterrupt"]
         [] OTHER ->
              [h |-> h1, status |-> "raise", val |-> "",
               exc |-> "Exception", event |-> "Exception"]

\* a slip in EnsureLexer: the lexer is constructed on every call
EnsureLexerAlways(h) ==
    [h EXCEPT !.lexer = Some("PythonXTracebackLexer"),
              !.stats.lexer_built = @ + 1]

\* lines 222-223: the lexer is constructed when self._lexer is None
EnsureLexer(h) ==
    IF h.lexer = None
    THEN [h EXCEPT !.lexer = Some("PythonXTracebackLexer"),
                   !.stats.lexer_built = @ + 1]
    ELSE h

\* lines 224-228: the formatter is constructed when self._formatter is None;
\* ClassNotFound leaves it None and warns
EnsureFormatter(h, fmt) ==
    IF h.formatter = None
    THEN IF fmt
         THEN [h EXCEPT !.formatter = Some("TerminalFormatter"),
                        !.stats.formatter_tried = @ + 1,
                        !.stats.formatter_built = @ + 1]
         ELSE [h EXCEPT !.stats.formatter_tried = @ + 1,
                        !.stats.formatter_failed = @ + 1,
                        !.stats.warnings = @ + 1]
    ELSE h

\* XTraceback._highlight; h holds self._lexer, self._formatter and the counts
highlight(string, h, out, e) ==
    IF ~e.pygments
    THEN [h |-> [h EXCEPT !.stats.warnings = @ + 1], status |-> "return",
          val |-> string, exc |-> "", event |-> "unavailable"]
    ELSE LET h2 == EnsureFormatter(EnsureLexer(h), out.fmt)
         IN IF h2.formatter = None
            THEN [h |-> h2, status |-> "return", val |-> string, exc |-> "",
                  event |-> "ClassNotFound"]
            ELSE HighlightCall(string, h2, out.hl)

\* map(self._highlight, lines): stops at the first call that raises
RECURSIVE MapHighlight(_, _, _, _, _)
MapHighlight(lines, i, acc, outs, e) ==
    IF i > Len(lines) \/ acc.status = "raise" THEN acc
    ELSE LET r == highlight(lines[i], acc.h, outs[i], e)
         IN MapHighlight(lines, i + 1,
                [h |-> r.h, status |-> r.status,
                 val |-> IF r.status = "raise" THEN <<>>
                         ELSE Append(acc.val, r.val),
                 exc |-> r.exc, events |-> Append(acc.events, r.event)],
                outs, e)

\* XTraceback._format_lines
format_lines(lines, h, outs, opts, e) ==
    IF color(opts)
    THEN MapHighlight(lines, 1,
             [h |-> h, status |-> "return", val |-> <<>>, exc |-> "",
              events |-> <<>>], outs, e)
    ELSE [h |-> h, status |-> "return", val |-> lines, exc |-> "",
          events |-> <<>>]

\* XTraceback._str_lines
str_lines(lines, h, out, opts, e) ==
    IF color(opts)
    THEN LET r == highlight(Join(lines), h, out, e)
         IN [h |-> r.h, status |-> r.status, val |-> r.val, exc |-> r.exc,
             events |-> <<r.event>>]
    ELSE [h |-> h, status |-> "return", val |-> Join(lines), exc |-> "",
          events |-> <<>>]

\* a slip in print_lines: the stream is not checked, and None has no write
print_lines_unchecked(lines, h, out, opts, e) ==
    LET r == str_lines(lines, h, out, opts, e)
    IN IF r.status = "return" /\ opts.stream = None
       THEN [h |-> r.h, status |-> "raise", val |-> "",
             exc |-> "AttributeError", events |-> r.events, wrote |-> FALSE]
       ELSE [h |-> r.h, status |-> r.status, val |-> r.val, exc |-> r.exc,
             events |-> r.events, wrote |-> r.status = "return"]

\* XTraceback._print_lines; wrote tells whether stream.write was called
print_lines(lines, h, out, opts, e) ==
    IF opts.stream = None
    THEN [h |-> h, status |-> "raise", val |-> "", exc |-> "RuntimeError",
          events |-> <<>>, wrote |-> FALSE]
    ELSE LET r == str_lines(lines, h, out, opts, e)
         IN [h |-> r.h, status |-> r.status, val |-> r.val, exc |-> r.exc,
             events |-> r.events, wrote |-> r.status = "return"]

----------------------------------------------------------------------------
(* XTraceback: the interface *)

Self == [lexer |-> lexer, formatter |-> formatter, stats |-> stats]

\* what a call found: the highlighter's objects and the stream's content
Before ==
    [lexer |-> lexer, formatter |-> formatter, stats |-> stats,
     written |-> written]

TbLines == format_tb_lines(tb_frames)
ExcOnlyLines == format_exception_only_lines(args.etype, args.value, options, env)
ExcLines == format_exception_lines(tb_frames, args.etype, args.value, options, env)

\* the number of _highlight calls a format_* call on lines may make
NCalls(lines) == IF color(options) THEN Len(lines) ELSE 0

\* the state after a call op that ended as r
Finish(op, r) ==
    /\ lexer' = r.h.lexer
    /\ formatter' = r.h.formatter
    /\ stats' = r.h.stats
    /\ ret' = [op |-> op, status |-> r.status, val |-> r.val, exc |-> r.exc,
               events |-> r.events, before |-> Before]
    /\ ncalls' = ncalls + 1
    /\ UNCHANGED <<pc, args, env, options, error, tb_frames, number_padding,
                   examined>>

CanCall == pc = "ready" /\ ncalls < MaxCalls

\* XTraceback.format_tb
FormatTb ==
    /\ CanCall
    /\ \E outs \in [1..NCalls(TbLines) -> Outcomes] :
          Finish("format_tb", format_lines(TbLines, Self, outs, options, env))
    /\ UNCHANGED written

\* XTraceback.format_exception_only
FormatExceptionOnly ==
    /\ CanCall
    /\ \E outs \in [1..NCalls(ExcOnlyLines) -> Outcomes] :
          Finish("format_exception_only",
                 format_lines(ExcOnlyLines, Self, outs, options, env))
    /\ UNCHANGED written

\* XTraceback.format_exception
FormatException ==
    /\ CanCall
    /\ \E outs \in [1..NCalls(ExcLines) -> Outcomes] :
          Finish("format_exception",
                 format_lines(ExcLines, Self, outs, options, env))
    /\ UNCHANGED written

\* XTraceback.__str__
ToStr ==
    /\ CanCall
    /\ \E out \in Outcomes :
          Finish("__str__", str_lines(ExcLines, Self, out, options, env))
    /\ UNCHANGED written

\* XTraceback.print_tb
PrintTb ==
    /\ CanCall
    /\ \E out \in Outcomes :
          LET r == print_lines(TbLines, Self, out, options, env)
          IN /\ Finish("print_tb", r)
             /\ written' = IF r.wrote THEN Append(written, r.val) ELSE written

\* XTraceback.print_exception
PrintException ==
    /\ CanCall
    /\ \E out \in Outcomes :
          LET r == print_lines(ExcLines, Self, out, options, env)
          IN /\ Finish("print_exception", r)
             /\ written' = IF r.wrote THEN Append(written, r.val) ELSE written

----------------------------------------------------------------------------
(* XTraceback: the value formatter *)

\* XTraceback.REFORMAT
REFORMAT ==
    [dict |-> <<"{", "}">>, list |-> <<"[", "]">>, tuple |-> <<"(", ")">>,
     set |-> <<"set([", "])">>, frozenset |-> <<"frozenset([", "])">>]

\* s.splitlines()
RECURSIVE SplitLinesFrom(_, _)
SplitLinesFrom(s, cur) ==
    IF Len(s) = 0 THEN (IF cur = "" THEN <<>> ELSE <<cur>>)
    ELSE IF SubSeq(s, 1, 1) = "\n"
         THEN <<cur>> \o SplitLinesFrom(SliceFrom(s, 1), "")
         ELSE SplitLinesFrom(SliceFrom(s, 1), cur \o SubSeq(s, 1, 1))

SplitLines(s) == SplitLinesFrom(s, "")

\* sep.join(lines)
RECURSIVE JoinWith(_, _)
JoinWith(sep, lines) ==
    IF lines = <<>> THEN ""
    ELSE IF Len(lines) = 1 THEN lines[1]
    ELSE lines[1] \o sep \o JoinWith(sep, Tail(lines))

\* lines 196-199: a long string is cut and gets the ellipsis
Truncate(value, width, base_size) ==
    IF value.type = "str" /\ Len(value.text) > width * 2
    THEN [value EXCEPT !.text = SliceTo(@, width - base_size - 2 - 3) \o "..."]
    ELSE value

\* lines 201-204: pprint.pformat(value, indent=0), or the placeholder when it
\* raises; the pformat of a str without quotes or escapes is its repr
PFormat(value) ==
    IF value.type = "str" THEN "'" \o value.text \o "'"
    ELSE IF value.repr # None THEN Get(value.repr)
    ELSE "<unprintable " \o value.type \o " object>"

\* lines 205-213: a container wider than the screen goes one item per line
Reformat(pvalue, vtype, width, base_size, indent) ==
    IF base_size + Len(pvalue) > width /\ vtype \in DOMAIN REFORMAT
    THEN LET start == REFORMAT[vtype][1]
             end == REFORMAT[vtype][2]
             split == SplitLines(RStripChars(LStripChars(pvalue, start), end))
             lines == [i \in 1..Len(split) |-> Strip(split[i])]
             sub_indent == "\n" \o Repeat(" ", indent + 4)
         IN start \o sub_indent \o JoinWith(sub_indent, lines) \o ","
            \o sub_indent \o end
    ELSE pvalue

\* XTraceback._format_variable
format_variable(key, value, indent, prefix, separator, width) ==
    LET base_size == indent + Len(prefix) + Len(key) + Len(separator)
        cut == Truncate(value, width, base_size)
    IN Repeat(" ", indent) \o prefix \o key \o separator
       \o Reformat(PFormat(cut), cut.type, width, base_size, indent)

TextValue(n) == [type |-> "str", text |-> Repeat("v", n), repr |-> None]

\* the values a variable may hold in the model
Values ==
    {TextValue(n) : n \in (0..MaxTextLen)
                          \cup {2 * DEFAULT_WIDTH, 2 * DEFAULT_WIDTH + 1,
                                3 * DEFAULT_WIDTH}}
    \cup {[type |-> "list", text |-> "", repr |-> Some("['a', 'b']")],
          [type |-> "set", text |-> "", repr |-> Some("set(['a', 'b'])")],
          [type |-> "int", text |-> "", repr |-> Some("1234567")],
          [type |-> "Broken", text |-> "", repr |-> None]}

\* the names a variable may have in the model
Keys == {Repeat("k", n) : n \in (1..MaxKeyLen) \cup {DEFAULT_WIDTH}}

\* the calls of _format_variable of the model
Variables ==
    [key : Keys, value : Values, indent : {0, 4}, prefix : {"", "g:"},
     separator : {" = ", "="}]

\* a call of XTraceback._format_variable on the variable args.variable
FormatVariable ==
    /\ CanCall
    /\ ret' = [op |-> "_format_variable", status |-> "return",
               val |-> format_variable(args.variable.key, args.variable.value,
                                       args.variable.indent,
                                       args.variable.prefix,
                                       args.variable.separator,
                                       print_width(options, env)),
               exc |-> "", events |-> <<>>, before |-> Before]
    /\ ncalls' = ncalls + 1
    /\ UNCHANGED <<pc, args, env, options, error, tb_frames, number_padding,
                   examined, lexer, formatter, stats, written>>

\* a read of XTraceback.print_width
PrintWidth ==
    /\ CanCall
    /\ ret' = [op |-> "print_width", status |-> "return",
               val |-> print_width(options, env), exc |-> "",
               events |-> <<>>, before |-> Before]
    /\ ncalls' = ncalls + 1
    /\ UNCHANGED <<pc, args, env, options, error, tb_frames, number_padding,
                   examined, lexer, formatter, stats, written>>

----------------------------------------------------------------------------
(* The callers: what XTraceback is constructed from *)

\* the options dict with the keys of present, valued by val
MkBag(present, val) == [k \in present |-> val[k]]
BagsOf(valspace) ==
    {MkBag(present, val) : present \in SUBSET DOMAIN (CHOOSE v \in valspace : TRUE),
                           val \in valspace}

\* the raw traceback: per frame its line number and whether XTracebackFrame
\* marks it excluded
LineNos == {7, 42, 365}
RawFrames == [lineno : LineNos, exclude : BOOLEAN]
Tracebacks == UNION {[1..n -> RawFrames] : n \in 0..MaxFrames}

ValueErrorType ==
    [isType |-> TRUE, name |-> "ValueError", str |-> "<type 'ValueError'>"]
SyntaxErrorType ==
    [isType |-> TRUE, name |-> "SyntaxError", str |-> "<type 'SyntaxError'>"]
OldStyleType == [isType |-> FALSE, name |-> "", str |-> "pkg.OldError"]

\* exception instances that are no SyntaxError
PlainValues ==
    {Some([type |-> "ValueError", str |-> s, unicode |-> u, syntax |-> FALSE,
           args |-> None]) :
        s \in {None, Some(""), Some("bad input")},
        u \in {None, Some("bad \\xe9")}}

\* the args of a SyntaxError that unpack
SyntaxArgs ==
    [msg : {"invalid syntax", ""},
     filename : {None, Some(""), Some("a.py"), Some("/lib/os.py"),
                 Some("/w/pkg/m.py")},
     lineno : {3},
     offset : {None, Some(0), Some(5), Some(20)},
     badline : {None, Some("  x = (y\n"), Some("\tfoo(")}]

SyntaxValues ==
    {Some([type |-> "SyntaxError", str |-> Some("invalid syntax (a.py, line 3)"),
           unicode |-> None, syntax |-> TRUE, args |-> a]) :
        a \in {None} \cup {Some(x) : x \in SyntaxArgs}}

SimpleValue ==
    Some([type |-> "ValueError", str |-> Some("bad input"),
          unicode |-> Some("bad input"), syntax |-> FALSE, args |-> None])

PlainEnv == [fcntl |-> TRUE, pygments |-> TRUE, relpath |-> TRUE, columns |-> 80]

OneFrame == <<[lineno |-> 42, exclude |-> FALSE]>>

OneVariable ==
    [key |-> "k", value |-> TextValue(1), indent |-> 4, prefix |-> "",
     separator |-> " = "]

NoStats ==
    [lexer_built |-> 0, formatter_built |-> 0, formatter_tried |-> 0,
     formatter_failed |-> 0, highlight_calls |-> 0, warnings |-> 0]

NoRet ==
    [op |-> "", status |-> "", val |-> "", exc |-> "", events |-> <<>>,
     before |-> [lexer |-> None, formatter |-> None, stats |-> NoStats,
                 written |-> <<>>]]

\* the state before XTraceback(etype, value, tb, **options) runs
InitWith(bags, tbs, etypes, values, variables, envs) ==
    /\ pc = "new"
    /\ args \in [bag : bags, tb : tbs, etype : etypes, value : values,
                 variable : variables]
    /\ env \in envs
    /\ options = NoOptions
    /\ error = NoError
    /\ tb_frames = <<>>
    /\ number_padding = 0
    /\ examined = <<>>
    /\ lexer = None
    /\ formatter = None
    /\ stats = NoStats
    /\ written = <<>>
    /\ ret = NoRet
    /\ ncalls = 0

\* tracebacks of every shape under every offset and limit, or every exception
\* value over a short traceback; color is off
Init ==
    \/ InitWith(BagsOf([offset : {Some(o) : o \in 0..MaxOffset},
                        limit : {Some(l) : l \in 0..MaxLimit}]),
                Tracebacks, {ValueErrorType}, {SimpleValue}, {OneVariable}, {PlainEnv})
    \/ InitWith(BagsOf([shorten_filenames : {Some(0)}]),
                {<<>>, OneFrame},
                {ValueErrorType, OldStyleType},
                {None} \cup PlainValues \cup SyntaxValues, {OneVariable},
                {[PlainEnv EXCEPT !.relpath = r] : r \in BOOLEAN})

Next ==
    \/ Construct
    \/ FormatTb
    \/ FormatExceptionOnly
    \/ FormatException

Spec == Init /\ [][Next]_vars

\* option dicts with known and unknown keys, and the terminals they meet
InitOptions ==
    InitWith(BagsOf([stream : {None, Some("tty"), Some("file"), Some("buffer")},
                     print_width : {None, Some(40), Some(120)},
                     offset : {Some(1)},
                     show_globals : {None} \cup {Some(v) : v \in 0..MaxFlagValue},
                     colour : {None, Some(1)},
                     width : {Some(100)}]),
             {OneFrame}, {ValueErrorType}, {SimpleValue}, {OneVariable},
             {[PlainEnv EXCEPT !.fcntl = f, !.columns = c] :
                 f \in BOOLEAN, c \in {0, 132}})

NextOptions ==
    \/ Construct
    \/ PrintWidth

SpecOptions == InitOptions /\ [][NextOptions]_vars

\* streams and color settings, with and without pygments
InitCalls ==
    InitWith(BagsOf([stream : {Some("tty"), Some("file"), Some("buffer")},
                     color : {Some(TRUE), Some(FALSE)}]),
             {<<>>, OneFrame}, {ValueErrorType}, {SimpleValue}, {OneVariable},
             {[PlainEnv EXCEPT !.pygments = p] : p \in BOOLEAN})

NextCalls ==
    \/ Construct
    \/ FormatTb
    \/ FormatExceptionOnly
    \/ FormatException
    \/ ToStr
    \/ PrintTb
    \/ PrintException

SpecCalls == InitCalls /\ [][NextCalls]_vars

\* screens of several widths, by option and by terminal
InitVariables ==
    InitWith(BagsOf([stream : {Some("tty")}, print_width : {Some(40)}]),
             {OneFrame}, {ValueErrorType}, {SimpleValue}, Variables,
             {[PlainEnv EXCEPT !.fcntl = f, !.columns = c] :
                 f \in BOOLEAN, c \in {0, 6, 20}})

NextVariables ==
    \/ Construct
    \/ FormatVariable

SpecVariables == InitVariables /\ [][NextVariables]_vars

----------------------------------------------------------------------------
(* Properties of XTracebackOptions and of print_width (SpecOptions) *)

\* the keys XTracebackOptions documents
RecognizedKeys ==
    {"stream", "color", "print_width", "offset", "limit", "context",
     "globals_module_include", "show_args", "show_locals", "show_globals",
     "qualify_methods", "shorten_filenames"}

UnrecognizedKeys == {k \in DOMAIN args.bag : k \notin RecognizedKeys}

\* C1: an options dict with at least one unrecognized key makes the
\* constructor fail with the unsupported-options error (a TypeError), whatever
\* recognized keys it also holds, and the error carries exactly the
\* unrecognized keys of the dict: all of them, and no recognized key.
C1_UnsupportedOptions ==
    (pc # "new" /\ UnrecognizedKeys # {}) =>
        /\ pc = "failed"
        /\ error.type = "TypeError"
        /\ DOMAIN error.dict = UnrecognizedKeys
        /\ \A k \in UnrecognizedKeys : error.dict[k] = args.bag[k]

\* C1 witness: two unrecognized keys beside recognized ones were rejected
C1_Witness ==
    /\ pc = "failed"
    /\ DOMAIN error.dict = {"colour", "width"}
    /\ {"stream", "show_globals"} \subseteq DOMAIN args.bag

\* C5: the effective print width is the configured one whenever one was
\* given; only when unset is it the terminal's (tty stream and fcntl), and
\* otherwise 80.
C5_ConfiguredWidth ==
    ret.op = "print_width" =>
        ret.val = IF options.print_width # None THEN Get(options.print_width)
                  ELSE IF env.fcntl /\ options.stream = Some("tty")
                       THEN env.columns
                       ELSE 80

----------------------------------------------------------------------------
(* Properties of the frame loop and of the lines (Spec) *)

RangeOf(seq) == {seq[i] : i \in 1..Len(seq)}

\* C6 as stated: the number of frames examined is min(l, L-o), 0 when o >= L,
\* and max(0, L-o) without a limit; the first o raw frames are never examined.
C6_ExaminedCount ==
    pc = "ready" =>
        LET L == Len(args.tb)
            o == Get(options.offset)
        IN /\ Len(examined) =
                 IF o >= L THEN 0
                 ELSE IF options.limit = None THEN L - o
                 ELSE Min(Get(options.limit), L - o)
           /\ \A i \in RangeOf(examined) : i >= o

\* C6 amended: the limit counts raw frames from the start of the traceback,
\* skipped ones included: the frames examined are those at the indices
\* o .. min(l, L)-1, in order, so their number is max(0, min(l, L) - o), and
\* max(0, L-o) without a limit; the first o raw frames are never examined.
C6_ExaminedRange ==
    pc = "ready" =>
        LET L == Len(args.tb)
            o == Get(options.offset)
            stop == IF options.limit = None THEN L
                    ELSE Min(Get(options.limit), L)
        IN /\ Len(examined) = Max(0, stop - o)
           /\ \A k \in 1..Len(examined) : examined[k] = o + k - 1
           /\ \A i \in RangeOf(examined) : i >= o

\* C6 witness: 3 raw frames, offset 1 and limit 2: one frame is examined
C6_Witness ==
    /\ pc = "ready"
    /\ Len(args.tb) = 3
    /\ options.offset = Some(1)
    /\ options.limit = Some(2)
    /\ examined = <<1>>

\* the number of decimal digits of n > 0
Digits(n) == CHOOSE d \in 1..6 : (n < 10 => d = 1)
                                  /\ (n >= 10 /\ n < 100 => d = 2)
                                  /\ (n >= 100 /\ n < 1000 => d = 3)
                                  /\ (n >= 1000 => d > 3)

\* C10: after construction tb_frames holds exactly the examined frames that
\* are not excluded, once each and in stack order, and number_padding is the
\* largest digit count of their line numbers (0 when none is retained): the
\* line number of an excluded or unexamined frame does not count.
C10_RetainedFrames ==
    pc = "ready" =>
        LET kept == {i \in RangeOf(examined) : ~args.tb[i + 1].exclude}
        IN /\ {f.index : f \in RangeOf(tb_frames)} = kept
           /\ Len(tb_frames) = Cardinality(kept)
           /\ \A k \in 1..Len(tb_frames) :
                 /\ tb_frames[k].lineno = args.tb[tb_frames[k].index + 1].lineno
                 /\ k > 1 => tb_frames[k - 1].index < tb_frames[k].index
           /\ \A f \in RangeOf(tb_frames) : Digits(f.lineno) <= number_padding
           /\ IF kept = {} THEN number_padding = 0
              ELSE \E f \in RangeOf(tb_frames) :
                      Digits(f.lineno) = number_padding

\* C10 witness: an excluded frame and a skipped frame both have more digits
\* than the retained ones
C10_Witness ==
    /\ pc = "ready"
    /\ Len(tb_frames) = 1
    /\ number_padding = 1
    /\ \E i \in RangeOf(examined) :
          args.tb[i + 1].exclude /\ args.tb[i + 1].lineno = 365
    /\ options.offset = Some(1)
    /\ args.tb[1].lineno = 42

\* C3: in the lines of the full exception the header is absent when no frame
\* was included, and otherwise it is there once, as the first line, followed
\* by the frame blocks and then by the exception lines.
C3_Header ==
    (ret.op = "format_exception" /\ ret.status = "return") =>
        LET lines == ret.val
            n == Len(tb_frames)
            tail == format_exception_only_lines(args.etype, args.value,
                                                options, env)
        IN IF n = 0
           THEN /\ \A i \in 1..Len(lines) : lines[i] # Header
                /\ lines = tail
           ELSE /\ lines[1] = "Traceback (most recent call last):\n"
                /\ Cardinality({i \in 1..Len(lines) : lines[i] = Header}) = 1
                /\ \A k \in 1..n : lines[k + 1] = FrameStr(tb_frames[k]) \o "\n"
                /\ SubSeq(lines, n + 2, Len(lines)) = tail

\* C3 witness: a traceback whose excluded frame is left out, under a header
C3_Witness ==
    /\ ret.op = "format_exception"
    /\ Len(tb_frames) = 2
    /\ Len(examined) = 3
    /\ Len(ret.val) = 4

\* C4: the last exception line is the type name and a newline, with
\* ": <message>" between them exactly when the exception instance is not None
\* and its resolved message is not empty.
C4_LastLine ==
    (ret.op \in {"format_exception_only", "format_exception"}
     /\ ret.status = "return") =>
        LET name == IF args.etype.isType THEN args.etype.name
                    ELSE args.etype.str
            msg == FinalValueStr(args.value)
        IN ret.val[Len(ret.val)] =
              IF args.value # None /\ msg # ""
              THEN name \o ": " \o msg \o "\n"
              ELSE name \o "\n"

\* C4 witness: an exception instance whose message is empty
C4_Witness ==
    /\ ret.op = "format_exception_only"
    /\ args.value # None
    /\ FinalValueStr(args.value) = ""
    /\ ret.val[Len(ret.val)] = "ValueError\n"

----------------------------------------------------------------------------
(* Properties of the calls on one XTraceback (SpecCalls) *)

Prints == {"print_tb", "print_exception"}
Formats == {"format_tb", "format_exception_only", "format_exception", "__str__"}

\* the unhighlighted lines a call works on
PlainLines(op) ==
    CASE op \in {"format_tb", "print_tb"} -> TbLines
      [] op = "format_exception_only" -> ExcOnlyLines
      [] OTHER -> ExcLines

\* a print call without a stream fails with the no-stream error (a
\* RuntimeError) and writes nothing; no format call or str() fails with it
NoStreamRule ==
    /\ (ret.op \in Prints /\ options.stream = None) =>
          /\ ret.status = "raise"
          /\ ret.exc = "RuntimeError"
          /\ written = ret.before.written
    /\ ret.op \in Formats =>
          /\ ret.exc # "RuntimeError"
          /\ written = ret.before.written

\* the call wrote the joined string, plain or highlighted, once
WroteOnce ==
    /\ Len(written) = Len(ret.before.written) + 1
    /\ SubSeq(written, 1, Len(ret.before.written)) = ret.before.written
    /\ written[Len(written)] \in {Join(PlainLines(ret.op)),
                                  Highlighted(Join(PlainLines(ret.op)))}

\* C2 as stated: without a stream every print call fails with the no-stream
\* error and writes nothing, while no format call fails for lack of a stream;
\* with a stream each print call writes the joined string exactly once.
C2_EveryPrintWrites ==
    /\ NoStreamRule
    /\ (ret.op \in Prints /\ options.stream # None) => WroteOnce

\* C2 amended: without a stream every print call fails with the no-stream
\* error and writes nothing, while no format call fails for lack of a stream;
\* with a stream each print call that returns has written the joined string
\* exactly once, and one that does not return has failed with the exception
\* pygments.highlight raised and has written nothing.
C2_PrintWritesOrRaises ==
    /\ NoStreamRule
    /\ (ret.op \in Prints /\ options.stream # None) =>
          IF ret.status = "return" THEN WroteOnce
          ELSE /\ ret.exc = "Exception"
               /\ ret.events = <<"Exception">>
               /\ written = ret.before.written

\* C2 witness: a second print without a stream has failed, nothing written
C2_Witness ==
    /\ ret.op = "print_exception"
    /\ options.stream = None
    /\ ret.exc = "RuntimeError"
    /\ ncalls = 2
    /\ written = <<>>

\* C8 as stated: when the highlighter raises, only a KeyboardInterrupt reaches
\* the caller; any other exception is swallowed and the text comes back
\* unhighlighted.
C8_OnlyInterruptPropagates ==
    \A i \in 1..Len(ret.events) :
        /\ ret.events[i] = "Exception" =>
              /\ ret.status = "return"
              /\ ret.op \in Prints \cup {"__str__"} =>
                    ret.val = Join(PlainLines(ret.op))
        /\ ret.events[i] = "KeyboardInterrupt" =>
              /\ ret.status = "raise"
              /\ ret.exc = "KeyboardInterrupt"

\* C8 amended: when the highlighter raises, a KeyboardInterrupt is the one
\* exception that is swallowed: it never reaches the caller and the text of
\* that highlight call comes back unhighlighted; any other exception reaches
\* the caller of the format or print operation.
C8_OnlyInterruptSwallowed ==
    /\ ret.exc # "KeyboardInterrupt"
    /\ \A i \in 1..Len(ret.events) :
        /\ ret.events[i] = "Exception" =>
              /\ ret.status = "raise"
              /\ ret.exc = "Exception"
              /\ i = Len(ret.events)
        /\ (ret.events[i] = "KeyboardInterrupt" /\ ret.status = "return") =>
              IF ret.op \in Prints \cup {"__str__"}
              THEN ret.val = Join(PlainLines(ret.op))
              ELSE ret.val[i] = PlainLines(ret.op)[i]

\* C8 witness: str() was interrupted and returned the plain text
C8_Witness ==
    /\ ret.op = "__str__"
    /\ ret.events = <<"KeyboardInterrupt">>
    /\ ret.status = "return"
    /\ ret.val = Join(ExcLines)

\* C9 as stated: once the construction of the formatter has failed, no later
\* call tries to construct it or to highlight, and it returns plain text; and
\* the lexer and the formatter are constructed at most once.
C9_PermanentlyDegraded ==
    /\ ret.before.stats.formatter_failed > 0 =>
          /\ stats.formatter_tried = ret.before.stats.formatter_tried
          /\ stats.highlight_calls = ret.before.stats.highlight_calls
          /\ \A i \in 1..Len(ret.events) : ret.events[i] # "highlighted"
    /\ stats.lexer_built <= 1
    /\ stats.formatter_built <= 1

\* C9 amended: a highlight call in which the construction of the formatter
\* fails returns its text unhighlighted, but the facade is not degraded for
\* good: every later call that highlights tries the construction again, until
\* one succeeds; the lexer and the formatter are each constructed at most
\* once and are reused by all later calls.
C9_RetriesFormatter ==
    /\ stats.lexer_built <= 1
    /\ stats.formatter_built <= 1
    /\ ret.before.lexer # None =>
          /\ lexer = ret.before.lexer
          /\ stats.lexer_built = ret.before.stats.lexer_built
    /\ ret.before.formatter # None =>
          /\ formatter = ret.before.formatter
          /\ stats.formatter_built = ret.before.stats.formatter_built
          /\ stats.formatter_tried = ret.before.stats.formatter_tried
    /\ (ret.before.formatter = None /\ env.pygments /\ ret.events # <<>>) =>
          stats.formatter_tried > ret.before.stats.formatter_tried
    /\ stats.highlight_calls > ret.before.stats.highlight_calls =>
          (lexer # None /\ formatter # None)
    /\ \A i \in 1..Len(ret.events) :
          (ret.events[i] = "ClassNotFound" /\ ret.status = "return") =>
              IF ret.op \in Prints \cup {"__str__"}
              THEN ret.val = Join(PlainLines(ret.op))
              ELSE ret.val[i] = PlainLines(ret.op)[i]

\* C9 witness: the construction failed in one call and succeeded in the next,
\* which highlighted with the lexer of the first
C9_Witness ==
    /\ ncalls = 2
    /\ stats.formatter_failed >= 1
    /\ stats.formatter_built = 1
    /\ stats.lexer_built = 1
    /\ ret.events = <<"highlighted">>

----------------------------------------------------------------------------
(* Properties of the value formatter (SpecVariables) *)

\* C7: a string longer than twice the print width is rendered cut: the value
\* between the quotes ends with "..." and is at most print_width characters
\* long, whatever the name, prefix, separator and indent.
C7_TruncatedFits ==
    (ret.op = "_format_variable"
     /\ args.variable.value.type = "str"
     /\ Len(args.variable.value.text) > 2 * print_width(options, env)) =>
        LET base_size == args.variable.indent + Len(args.variable.prefix)
                         + Len(args.variable.key)
                         + Len(args.variable.separator)
            shown == SubSeq(ret.val, base_size + 2, Len(ret.val) - 1)
        IN /\ Len(shown) >= 3
           /\ SubSeq(shown, Len(shown) - 2, Len(shown)) = "..."
           /\ Len(shown) <= print_width(options, env)

====
